---- MODULE Spec2Model ----
(***************************************************************************)
(* Model of conductor/io.py: the pixel-mapping loader, the GSA grid header *)
(* reader and writer, the glacier mask derivation and the two directions   *)
(* of the state synchronizer (read_state / write_state).                   *)
(*                                                                         *)
(* Every function of io.py is one action that performs the whole call.     *)
(* A call that raises ends in a status other than "ok"; whatever it had    *)
(* already assigned to a caller-owned object stays assigned, as in Python. *)
(***************************************************************************)
EXTENDS Integers, Sequences, FiniteSets, TLC

VARIABLES
  stores,      \* the flat state stores: "S" (model output) and "Z" (zeroed copy)
  cells,       \* the ordered mapping cell id -> Cell, in iteration order
  last,        \* the synchronizer call made last: [op, target, status]
  prev,        \* the synchronizer call made before it
  pre_store,   \* the store argument of the last call, as it was before the call
  pre_cells,   \* the hierarchy as it was before the last call
  pm_file,     \* the pixel mapping file given to get_rgm_pixel_mapping
  pm_out,      \* what get_rgm_pixel_mapping returned, status "none" before
  gsa_file,    \* the DEM file on disk: a sequence of lines of characters
  gsa_written, \* the arguments of the write_grid_to_gsa_file call that wrote
               \* gsa_file, status "none" while the file is a foreign one
  gsa_out,     \* what read_gsa_headers returned for gsa_file
  mask_in,     \* the arguments of the last update_glacier_mask call
  mask_out     \* what that call returned

syncVars == <<stores, cells, last, prev, pre_store, pre_cells>>
pixelVars == <<pm_file, pm_out>>
gsaVars == <<gsa_file, gsa_written, gsa_out>>
maskVars == <<mask_in, mask_out>>
vars == <<syncVars, pixelVars, gsaVars, maskVars>>

-----------------------------------------------------------------------------
(* Bounds of the synchronizer inputs.                                      *)

MaxCells == 2   \* cells in the mapping: 0..MaxCells; a store's lat axis:
                \* 1..MaxCells, its lon axis: 0..MaxCells
MaxHrus == 2    \* HRUs of the whole hierarchy, over all cells and bands:
                \* 0..MaxHrus; a store's HRU axis: 1..MaxHrus

MaxRecords == 2 \* pixel records of a mapping file: 0..MaxRecords

MaxGsaDim == 2  \* num_cols_dem and num_rows_dem given to the writer: 1..MaxGsaDim
MaxElev == 1    \* elevations of the surface and bed DEMs: 0..MaxElev

\* <<rows, columns>> of the pixel grids and of the DEMs
GridShapes == {<<1, 2>>, <<2, 1>>, <<2, 2>>}

CellVarNames == {"cA"}    \* names of (lat, lon) variables
HruVarNames == {"hA"}     \* names of (lat, lon, hru) variables
StoreNames == {"S", "Z"}

-----------------------------------------------------------------------------
(* Generic helpers.                                                        *)

RECURSIVE SumSeq(_)
SumSeq(s) == IF s = <<>> THEN 0 ELSE Head(s) + SumSeq(Tail(s))

RECURSIVE Flatten(_)
Flatten(ss) == IF ss = <<>> THEN <<>> ELSE Head(ss) \o Flatten(Tail(ss))

\* sequences over S of length 0..n
SeqsUpTo(S, n) == UNION {[1..k -> S] : k \in 0..n}

\* sequences over S of length 0..n without repetition (a dict's key order)
DistinctSeqs(S, n) ==
  {s \in SeqsUpTo(S, n) : \A i, j \in 1..Len(s) : i # j => s[i] # s[j]}

-----------------------------------------------------------------------------
(* The flat state store: state['lon'] is the longitude axis; every other   *)
(* variable is an array indexed (lat, lon) or (lat, lon, hru).             *)

NumLats(state) == Len(state.lat)
NumHrus(state) == state.num_hrus

CellIdx2(state) == (0..(NumLats(state) - 1)) \X (0..(Len(state.lon) - 1))
HruIdx3(state) == CellIdx2(state) \X (0..(NumHrus(state) - 1))

\* the values of a store produced by a model run: every element distinct
StoreTag(v, la, lo, h) ==
  (IF v \in CellVarNames THEN 1000 ELSE 2000) + 100 * la + 10 * lo + h + 1

Filled(nlat, nlon, nhru, names) ==
  [lat |-> [k \in 1..nlat |-> k], lon |-> [k \in 1..nlon |-> k],
   num_hrus |-> nhru,
   vars |-> [v \in names |->
     IF v \in CellVarNames
       THEN [ix \in (0..(nlat - 1)) \X (0..(nlon - 1)) |->
               StoreTag(v, ix[1], ix[2], 0)]
       ELSE [ix \in ((0..(nlat - 1)) \X (0..(nlon - 1))) \X (0..(nhru - 1)) |->
               StoreTag(v, ix[1][1], ix[1][2], ix[2])]]]

\* a freshly zeroed store of the same shape and variables
Zeroed(state) ==
  [state EXCEPT !.vars = [v \in DOMAIN state.vars |->
     [ix \in DOMAIN state.vars[v] |-> 0]]]

-----------------------------------------------------------------------------
(* The hierarchy. A variables dict is a sequence of <<name, value>> pairs  *)
(* in the dict's iteration order. A band holds hru_keys_sorted and hrus.   *)

\* the band sizes of one cell: every band holds at least one HRU
BandLayouts ==
  {bs \in SeqsUpTo(1..MaxHrus, MaxHrus) : SumSeq(bs) <= MaxHrus}

\* the band sizes of the cells of a hierarchy
Hierarchies ==
  {ls \in SeqsUpTo(BandLayouts, MaxCells) :
     SumSeq([c \in 1..Len(ls) |-> SumSeq(ls[c])]) <= MaxHrus}

\* what the store holds and what the hierarchy declares: the store lacks
\* variables the hierarchy declares, or the hierarchy declares fewer than
\* the store holds
Schemas ==
  {sc \in [names : SUBSET (CellVarNames \cup HruVarNames),
           cdecl : DistinctSeqs(CellVarNames, Cardinality(CellVarNames)),
           hdecl : DistinctSeqs(HruVarNames, Cardinality(HruVarNames))] :
     \/ sc.names = CellVarNames \cup HruVarNames
     \/ /\ Len(sc.cdecl) = Cardinality(CellVarNames)
        /\ Len(sc.hdecl) = Cardinality(HruVarNames)}

HierTag(i, b, key) == 3000 + 100 * i + 10 * b + key

MkVars(decl, val) == [k \in 1..Len(decl) |-> <<decl[k], val>>]

\* veg type numbers of a band of n HRUs, ascending
MkBand(i, b, n, hdecl) ==
  [hru_keys_sorted |-> [j \in 1..n |-> 10 + j],
   hrus |-> [key \in {10 + j : j \in 1..n} |->
              [hru_state |-> MkVars(hdecl, HierTag(i, b, key - 10))]]]

MkCell(i, layout, cdecl, hdecl) ==
  [cell_state |-> MkVars(cdecl, HierTag(i, 0, 0)),
   bands |-> [b \in 1..Len(layout) |-> MkBand(i, b, layout[b], hdecl)]]

MkCells(layouts, cdecl, hdecl) ==
  [c \in 1..Len(layouts) |-> MkCell(c - 1, layouts[c], cdecl, hdecl)]

-----------------------------------------------------------------------------
(* read_state / write_state.                                               *)

\* Variants of get_2D_cell_indices: the two indices exchanged; the row taken
\* with % as well.
M_Get2DSwapped(count, num_lons) == <<count % num_lons, count \div num_lons>>
M_Get2DModOnly(count, num_lons) == <<count % num_lons, count % num_lons>>

\* get_2D_cell_indices(count): count // num_lons, count % num_lons
Get2DCellIndices(count, num_lons) == <<count \div num_lons, count % num_lons>>

\* Variant of cell_hru_idx: reset to 0 at every band.
M_HruIdxPerBand(cell, b, j) == j - 1

\* cell_hru_idx when the j-th key of band b is visited: 0 at the cell's
\* start, incremented after every HRU, never reset between bands
CellHruIdx(cell, b, j) ==
  SumSeq([k \in 1..(b - 1) |-> Len(cell.bands[k].hru_keys_sorted)]) + (j - 1)

\* the store accesses of one cell, in the order the loops make them
CellAccesses(cell, cell_idx, num_lons) ==
  LET ij == Get2DCellIndices(cell_idx, num_lons)
      cellLevel ==
        [k \in 1..Len(cell.cell_state) |->
          [level |-> "cell", var |-> cell.cell_state[k][1],
           lat |-> ij[1], lon |-> ij[2], hru |-> 0,
           cell |-> cell_idx + 1, band |-> 0, key |-> 0, slot |-> k]]
      hruLevel(b, j) ==
        LET key == cell.bands[b].hru_keys_sorted[j]
            hs == cell.bands[b].hrus[key].hru_state
        IN [k \in 1..Len(hs) |->
             [level |-> "hru", var |-> hs[k][1],
              lat |-> ij[1], lon |-> ij[2], hru |-> CellHruIdx(cell, b, j),
              cell |-> cell_idx + 1, band |-> b, key |-> key, slot |-> k]]
      bandLevel(b) ==
        Flatten([j \in 1..Len(cell.bands[b].hru_keys_sorted) |-> hruLevel(b, j)])
  IN cellLevel \o Flatten([b \in 1..Len(cell.bands) |-> bandLevel(b)])

\* the accesses of a whole pass over cells.items()
Accesses(cs, num_lons) ==
  Flatten([c \in 1..Len(cs) |-> CellAccesses(cs[c], c - 1, num_lons)])

\* state[variable][lat][lon] / state[variable][lat][lon][hru]: the lookup
\* of the variable comes first, then the indexing
AccessError(state, a) ==
  IF a.var \notin DOMAIN state.vars THEN "KeyError"
  ELSE IF a.level = "cell" /\ <<a.lat, a.lon>> \notin CellIdx2(state)
    THEN "IndexError"
  ELSE IF a.level = "hru" /\ <<<<a.lat, a.lon>>, a.hru>> \notin HruIdx3(state)
    THEN "IndexError"
  ELSE "ok"

StoreIx(a) == IF a.level = "cell" THEN <<a.lat, a.lon>>
              ELSE <<<<a.lat, a.lon>>, a.hru>>

HierGet(cs, a) ==
  IF a.level = "cell" THEN cs[a.cell].cell_state[a.slot][2]
  ELSE cs[a.cell].bands[a.band].hrus[a.key].hru_state[a.slot][2]

HierSet(cs, a, x) ==
  IF a.level = "cell"
    THEN [cs EXCEPT ![a.cell].cell_state[a.slot] = <<a.var, x>>]
    ELSE [cs EXCEPT ![a.cell].bands[a.band].hrus[a.key].hru_state[a.slot] =
                      <<a.var, x>>]

\* the loop body of read_state from access k on: stops at the first raise
RECURSIVE ReadFrom(_, _, _, _)
ReadFrom(state, cs, accs, k) ==
  IF k > Len(accs) THEN [status |-> "ok", cells |-> cs]
  ELSE LET e == AccessError(state, accs[k]) IN
    IF e # "ok" THEN [status |-> e, cells |-> cs]
    ELSE ReadFrom(state,
                  HierSet(cs, accs[k], state.vars[accs[k].var][StoreIx(accs[k])]),
                  accs, k + 1)

\* the loop body of write_state from access k on
RECURSIVE WriteFrom(_, _, _, _)
WriteFrom(state, cs, accs, k) ==
  IF k > Len(accs) THEN [status |-> "ok", state |-> state]
  ELSE LET e == AccessError(state, accs[k]) IN
    IF e # "ok" THEN [status |-> e, state |-> state]
    ELSE WriteFrom([state EXCEPT !.vars[accs[k].var][StoreIx(accs[k])] =
                                   HierGet(cs, accs[k])],
                   cs, accs, k + 1)

\* read_state(state, cells)
read_state(state, cs) ==
  LET num_lons == Len(state.lon) IN
  IF cs = <<>> THEN [status |-> "ok", cells |-> cs]
  ELSE IF num_lons = 0 THEN [status |-> "ZeroDivisionError", cells |-> cs]
  ELSE ReadFrom(state, cs, Accesses(cs, num_lons), 1)

\* write_state(state, cells)
write_state(state, cs) ==
  LET num_lons == Len(state.lon) IN
  IF cs = <<>> THEN [status |-> "ok", state |-> state]
  ELSE IF num_lons = 0 THEN [status |-> "ZeroDivisionError", state |-> state]
  ELSE WriteFrom(state, cs, Accesses(cs, num_lons), 1)

\* the values of the variables before any call
NoCall == [op |-> "none", target |-> "S", status |-> "ok"]
NoFile == [headers |-> <<>>, records |-> <<>>]
None == [status |-> "none"]

IdleSync ==
  /\ stores = [n \in StoreNames |-> Filled(1, 1, 1, {})]
  /\ cells = <<>>
  /\ last = NoCall
  /\ prev = NoCall
  /\ pre_store = stores["S"]
  /\ pre_cells = cells

IdlePixel == pm_file = NoFile /\ pm_out = None

IdleGsa == gsa_file = <<>> /\ gsa_written = None /\ gsa_out = None

IdleMask == mask_in = None /\ mask_out = None

InitSync ==
  \E nlat \in 1..MaxCells, nlon \in 0..MaxCells, nhru \in 1..MaxHrus,
     sc \in Schemas, layouts \in Hierarchies :
    /\ stores = [n \in StoreNames |->
                  IF n = "S" THEN Filled(nlat, nlon, nhru, sc.names)
                  ELSE Zeroed(Filled(nlat, nlon, nhru, sc.names))]
    /\ cells = MkCells(layouts, sc.cdecl, sc.hdecl)
    /\ last = NoCall
    /\ prev = NoCall
    /\ pre_store = stores["S"]
    /\ pre_cells = cells
    /\ IdlePixel /\ IdleGsa /\ IdleMask

\* One exchange is at most two synchronizer calls, in any order and on any
\* of the stores.
ReadState(n) ==
  LET r == read_state(stores[n], cells) IN
  /\ prev.op = "none"
  /\ cells' = r.cells
  /\ last' = [op |-> "read", target |-> n, status |-> r.status]
  /\ prev' = last
  /\ pre_store' = stores[n]
  /\ pre_cells' = cells
  /\ UNCHANGED <<stores, pixelVars, gsaVars, maskVars>>

WriteState(n) ==
  LET r == write_state(stores[n], cells) IN
  /\ prev.op = "none"
  /\ stores' = [stores EXCEPT ![n] = r.state]
  /\ last' = [op |-> "write", target |-> n, status |-> r.status]
  /\ prev' = last
  /\ pre_store' = stores[n]
  /\ pre_cells' = cells
  /\ UNCHANGED <<cells, pixelVars, gsaVars, maskVars>>

NextSync ==
  \/ \E n \in StoreNames : ReadState(n)
  \/ \E n \in StoreNames : WriteState(n)

SpecSync == InitSync /\ [][NextSync]_vars

-----------------------------------------------------------------------------
(* get_rgm_pixel_mapping.                                                  *)

\* np.nan, the fill value of both grids; every other grid value is >= 0
NaN == -1

CellIds == {"NA", "7", "nan"}    \* the last field of a pixel record

\* float(s) of a cell id string, as numpy stores it in a float array
ToFloat(s) == IF s = "7" THEN 7 ELSE NaN

\* a numpy index along an axis of length n: negative indices count from the
\* end, anything outside -n..n-1 raises IndexError (-1 here)
NormIdx(i, n) ==
  IF 0 <= i /\ i < n THEN i
  ELSE IF -n <= i /\ i < 0 THEN i + n
  ELSE -1

\* Variant of the count update: the count is set to 1 every time.
M_IncrementReset(cell_areas, cell_id) ==
  [c \in DOMAIN cell_areas \cup {cell_id} |->
    IF c = cell_id THEN 1 ELSE cell_areas[c]]

\* cell_areas[cell_id] += 1, or = 1 for an identifier not seen before
Increment(cell_areas, cell_id) ==
  [c \in DOMAIN cell_areas \cup {cell_id} |->
    IF c = cell_id
      THEN (IF c \in DOMAIN cell_areas THEN cell_areas[c] + 1 ELSE 1)
      ELSE cell_areas[c]]

\* the loop over the pixel records from line k on; writes[k] is the set of
\* grid indices record k assigned to
RECURSIVE LoadFrom(_, _, _)
LoadFrom(acc, records, k) ==
  IF k > Len(records) THEN acc
  ELSE
    LET r == records[k]
        i == NormIdx(r.i, acc.ny)
        j == NormIdx(r.j, acc.nx)
    IN IF r.cell_id # "NA" /\ (i = -1 \/ j = -1)
         THEN [acc EXCEPT !.status = "IndexError"]
         ELSE LoadFrom(
           [acc EXCEPT
              !.cell_id_map = IF r.cell_id # "NA"
                THEN [@ EXCEPT ![<<i, j>>] = ToFloat(r.cell_id)] ELSE @,
              !.z_map = IF r.cell_id # "NA"
                THEN [@ EXCEPT ![<<i, j>>] = r.median_elev] ELSE @,
              !.writes = Append(@, IF r.cell_id # "NA" THEN {<<i, j>>} ELSE {}),
              !.cell_areas = Increment(@, r.cell_id)],
           records, k + 1)

\* get_rgm_pixel_mapping(pixel_map_file)
get_rgm_pixel_mapping(file) ==
  LET headers == [key \in {file.headers[h][1] : h \in 1..2} |->
                   file.headers[CHOOSE h \in 1..2 :
                     /\ file.headers[h][1] = key
                     /\ \A g \in 1..2 : file.headers[g][1] = key => g <= h][2]]
  IN IF ~({"NCOLS", "NROWS"} \subseteq DOMAIN headers)
       THEN [status |-> "KeyError"]
       ELSE LET nx == headers["NCOLS"]
                ny == headers["NROWS"]
                grid == [ix \in (0..(ny - 1)) \X (0..(nx - 1)) |-> NaN]
            IN LoadFrom([status |-> "ok", cell_id_map |-> grid, z_map |-> grid,
                         cell_areas |-> <<>>, nx |-> nx, ny |-> ny,
                         writes |-> <<>>],
                        file.records, 1)

\* the records of a file for an ny x nx grid: every index addresses a pixel,
\* from the front or (as -1) from the end; the elevation names the line
RecordsFor(ny, nx) ==
  UNION {{[k \in 1..n |->
            [i |-> f[k][1], j |-> f[k][2], median_elev |-> 100 + k,
             cell_id |-> f[k][3]]] :
          f \in [1..n -> ((-1)..(ny - 1)) \X ((-1)..(nx - 1)) \X CellIds]} :
         n \in 0..MaxRecords}

InitPixel ==
  \E shape \in GridShapes :
    \E hs \in {<<<<"NCOLS", shape[2]>>, <<"NROWS", shape[1]>>>>,
               <<<<"NROWS", shape[1]>>, <<"NCOLS", shape[2]>>>>},
       recs \in RecordsFor(shape[1], shape[2]) :
      /\ pm_file = [headers |-> hs, records |-> recs]
      /\ pm_out = None
      /\ IdleSync /\ IdleGsa /\ IdleMask

GetRgmPixelMapping ==
  /\ pm_out.status = "none"
  /\ pm_out' = get_rgm_pixel_mapping(pm_file)
  /\ UNCHANGED <<pm_file, syncVars, gsaVars, maskVars>>

NextPixel == GetRgmPixelMapping

SpecPixel == InitPixel /\ [][NextPixel]_vars

\* the grid index a record addresses
PixelOf(r, out) == <<NormIdx(r.i, out.ny), NormIdx(r.j, out.nx)>>

Sentinels(out) == {ix \in DOMAIN out.cell_id_map : out.cell_id_map[ix] = NaN}

NamedCount(out) ==
  LET ids == DOMAIN out.cell_areas \ {"NA"}
      seq == CHOOSE q \in [1..Cardinality(ids) -> ids] :
               \A a, b \in 1..Cardinality(ids) : a # b => q[a] # q[b]
  IN SumSeq([k \in 1..Cardinality(ids) |-> out.cell_areas[seq[k]]])

\* every identifier of the file is 'NA' or a number
NumericIds(file) ==
  \A k \in 1..Len(file.records) :
    file.records[k].cell_id # "NA" => ToFloat(file.records[k].cell_id) # NaN

\* C6 as stated, for the files whose identifiers are numbers or 'NA': for
\* every accepted file, repeated (row, col) pairs included, the unmapped
\* pixels plus the counts of all identifiers other than 'NA' number nx * ny.
C6_PixelCount_AsStated ==
  (pm_out.status = "ok" /\ NumericIds(pm_file)) =>
    Cardinality(Sentinels(pm_out)) + NamedCount(pm_out) = pm_out.nx * pm_out.ny

\* no pixel is addressed by two records, and no identifier reads as NaN
OneRecordPerPixel(file, out) ==
  /\ \A a, b \in 1..Len(file.records) :
       a # b => PixelOf(file.records[a], out) # PixelOf(file.records[b], out)
  /\ NumericIds(file)

\* C6 (amended): for an accepted file in which every pixel has at most one
\* record and no identifier reads as not-a-number, the unmapped pixels plus
\* the counts of the identifiers other than 'NA' number nx * ny; a record
\* with an identifier mutates the grids exactly once, at its index, and an
\* 'NA' record mutates nothing.
C6_PixelCount ==
  (pm_out.status = "ok" /\ OneRecordPerPixel(pm_file, pm_out)) =>
    /\ Cardinality(Sentinels(pm_out)) + NamedCount(pm_out)
         = pm_out.nx * pm_out.ny
    /\ \A k \in 1..Len(pm_file.records) :
         pm_out.writes[k] =
           IF pm_file.records[k].cell_id = "NA" THEN {}
           ELSE {PixelOf(pm_file.records[k], pm_out)}

C6_Witness ==
  /\ pm_out.status = "ok" /\ OneRecordPerPixel(pm_file, pm_out)
  /\ Len(pm_file.records) >= 2
  /\ "7" \in DOMAIN pm_out.cell_areas /\ pm_out.cell_areas["7"] = 2
  /\ Sentinels(pm_out) # {}

-----------------------------------------------------------------------------
(* update_glacier_mask. A DEM is a function from <<row, column>> to an     *)
(* elevation.                                                              *)

Shape(rows, cols) == (0..(rows - 1)) \X (0..(cols - 1))

\* Variant of the mask test: diffs >= 0.
M_IsNonNegative(d) == d >= 0

\* diffs > 0, the entries the mask sets to 1
IsPositive(d) == d > 0

\* update_glacier_mask(surf_dem, bed_dem, num_rows_dem, num_cols_dem)
update_glacier_mask(surf_dem, bed_dem, num_rows_dem, num_cols_dem) ==
  IF DOMAIN surf_dem # DOMAIN bed_dem THEN [status |-> "ValueError"]
  ELSE
    LET diffs == [ix \in DOMAIN surf_dem |-> surf_dem[ix] - bed_dem[ix]] IN
    IF \E ix \in DOMAIN diffs : diffs[ix] < 0 THEN [status |-> "Exception"]
    ELSE IF DOMAIN diffs # Shape(num_rows_dem, num_cols_dem)
      THEN [status |-> "IndexError"]
    ELSE [status |-> "ok",
          glacier_mask |-> [ix \in Shape(num_rows_dem, num_cols_dem) |->
                             IF IsPositive(diffs[ix]) THEN 1 ELSE 0]]

Dems(shape) == [Shape(shape[1], shape[2]) -> 0..MaxElev]

InitMask == IdleMask /\ IdleSync /\ IdlePixel /\ IdleGsa

UpdateGlacierMask ==
  \E shape \in GridShapes, dims \in GridShapes :
    \E surf \in Dems(shape), bed \in Dems(shape) :
      /\ mask_in = None
      /\ mask_in' = [status |-> "called", surf_dem |-> surf, bed_dem |-> bed,
                     num_rows_dem |-> dims[1], num_cols_dem |-> dims[2]]
      /\ mask_out' = update_glacier_mask(surf, bed, dims[1], dims[2])
      /\ UNCHANGED <<syncVars, pixelVars, gsaVars>>

NextMask == UpdateGlacierMask

SpecMask == InitMask /\ [][NextMask]_vars

SameShape(in) ==
  /\ in.status = "called"
  /\ DOMAIN in.surf_dem = Shape(in.num_rows_dem, in.num_cols_dem)
  /\ DOMAIN in.bed_dem = Shape(in.num_rows_dem, in.num_cols_dem)

\* C7: for surface and bed of shape (num_rows_dem, num_cols_dem) the call
\* fails with the physical-inconsistency error and returns no mask if some
\* entry has surface < bed; otherwise it returns a grid of that shape that
\* is 1 exactly where surface - bed > 0 and 0 elsewhere.
C7_GlacierMask ==
  SameShape(mask_in) =>
    IF \E ix \in DOMAIN mask_in.surf_dem :
         mask_in.surf_dem[ix] < mask_in.bed_dem[ix]
      THEN mask_out = [status |-> "Exception"]
      ELSE /\ mask_out.status = "ok"
           /\ DOMAIN mask_out.glacier_mask =
                Shape(mask_in.num_rows_dem, mask_in.num_cols_dem)
           /\ \A ix \in DOMAIN mask_out.glacier_mask :
                /\ mask_out.glacier_mask[ix] \in {0, 1}
                /\ mask_out.glacier_mask[ix] = 1
                     <=> mask_in.surf_dem[ix] - mask_in.bed_dem[ix] > 0
                /\ mask_in.surf_dem[ix] = mask_in.bed_dem[ix]
                     => mask_out.glacier_mask[ix] = 0

C7_Witness ==
  /\ SameShape(mask_in) /\ mask_out.status = "ok"
  /\ \E ix, iy \in DOMAIN mask_out.glacier_mask :
       /\ mask_in.surf_dem[ix] = mask_in.bed_dem[ix]
       /\ mask_out.glacier_mask[ix] = 0
       /\ mask_out.glacier_mask[iy] = 1

C7_WitnessRaise ==
  SameShape(mask_in) /\ mask_out.status = "Exception"

-----------------------------------------------------------------------------
(* read_gsa_headers / write_grid_to_gsa_file. A file is a sequence of      *)
(* lines, a line a sequence of characters (its line end left out). A       *)
(* number is [kind, t]: kind "int" or "float", t the value in tenths.      *)

Digits == <<"0", "1", "2", "3", "4", "5", "6", "7", "8", "9">>
IsDigit(c) == \E d \in 1..10 : Digits[d] = c
DigitVal(c) == (CHOOSE d \in 1..10 : Digits[d] = c) - 1
AllDigits(cs) == \A k \in 1..Len(cs) : IsDigit(cs[k])
Abs(n) == IF n < 0 THEN -n ELSE n

PyInt(n) == [kind |-> "int", t |-> 10 * n]
PyFloat(t) == [kind |-> "float", t |-> t]

RECURSIVE StrNat(_)
StrNat(n) ==
  IF n < 10 THEN <<Digits[n + 1]>>
  ELSE StrNat(n \div 10) \o <<Digits[(n % 10) + 1]>>

\* str(x), as csv.writer formats a field
Str(x) ==
  LET sign == IF x.t < 0 THEN <<"-">> ELSE <<>>
      whole == StrNat(Abs(x.t) \div 10)
  IN IF x.kind = "int" THEN sign \o whole
     ELSE sign \o whole \o <<".", Digits[(Abs(x.t) % 10) + 1]>>

RECURSIVE NatOf(_)
NatOf(cs) ==
  IF cs = <<>> THEN 0
  ELSE 10 * NatOf(SubSeq(cs, 1, Len(cs) - 1)) + DigitVal(cs[Len(cs)])

Unsigned(tok) == IF tok # <<>> /\ tok[1] = "-" THEN Tail(tok) ELSE tok
SignOf(tok) == IF tok # <<>> /\ tok[1] = "-" THEN -1 ELSE 1

\* int(tok): digits after an optional sign, anything else is a ValueError
ParseInt(tok) ==
  LET body == Unsigned(tok) IN
  IF body # <<>> /\ AllDigits(body)
    THEN [ok |-> TRUE, val |-> PyInt(SignOf(tok) * NatOf(body))]
    ELSE [ok |-> FALSE, val |-> PyInt(0)]

\* float(tok): digits with at most one point among them after an optional
\* sign (tokens here carry at most one digit after the point)
ParseFloat(tok) ==
  LET body == Unsigned(tok)
      dots == {k \in 1..Len(body) : body[k] = "."}
  IN IF dots = {} THEN
       IF body # <<>> /\ AllDigits(body)
         THEN [ok |-> TRUE, val |-> PyFloat(SignOf(tok) * 10 * NatOf(body))]
         ELSE [ok |-> FALSE, val |-> PyFloat(0)]
     ELSE
       LET p == CHOOSE k \in dots : TRUE
           whole == SubSeq(body, 1, p - 1)
           frac == SubSeq(body, p + 1, Len(body))
       IN IF /\ Cardinality(dots) = 1 /\ AllDigits(whole) /\ AllDigits(frac)
             /\ Len(whole) + Len(frac) > 0 /\ Len(frac) <= 1
            THEN [ok |-> TRUE,
                  val |-> PyFloat(SignOf(tok) *
                    (10 * NatOf(whole) +
                     (IF frac = <<>> THEN 0 ELSE DigitVal(frac[1]))))]
            ELSE [ok |-> FALSE, val |-> PyFloat(0)]

\* line.split(): the maximal runs of characters other than blanks
RECURSIVE SplitFrom(_, _, _)
SplitFrom(line, cur, acc) ==
  IF line = <<>> THEN (IF cur = <<>> THEN acc ELSE Append(acc, cur))
  ELSE IF Head(line) = " "
    THEN SplitFrom(Tail(line), <<>>, IF cur = <<>> THEN acc ELSE Append(acc, cur))
    ELSE SplitFrom(Tail(line), Append(cur, Head(line)), acc)

Split(line) == SplitFrom(line, <<>>, <<>>)

\* the fields of a row joined by the delimiter ' '
RECURSIVE JoinRow(_)
JoinRow(fields) ==
  IF fields = <<>> THEN <<>>
  ELSE IF Len(fields) = 1 THEN fields[1]
  ELSE fields[1] \o <<" ">> \o JoinRow(Tail(fields))

DSAA == <<"D", "S", "A", "A">>

\* Variant of the marker test: first_line.endswith('DSAA').
M_EndsWith(line, prefix) ==
  /\ Len(line) >= Len(prefix)
  /\ SubSeq(line, Len(line) - Len(prefix) + 1, Len(line)) = prefix

\* first_line.startswith('DSAA')
StartsWith(line, prefix) ==
  /\ Len(line) >= Len(prefix)
  /\ SubSeq(line, 1, Len(prefix)) = prefix

\* f.readline() for line k of the file: '' at the end of the file
ReadLine(file, k) == IF k <= Len(file) THEN file[k] ELSE <<>>

\* Variant of the returned list: columns before rows.
M_ReturnColsRows(xmin, xmax, ymin, ymax, num_rows, num_cols) ==
  <<xmin, xmax, ymin, ymax, num_cols, num_rows>>

\* out_1 + out_2 of read_gsa_headers
ReturnValue(xmin, xmax, ymin, ymax, num_rows, num_cols) ==
  <<xmin, xmax, ymin, ymax, num_rows, num_cols>>

\* read_gsa_headers(dem_file); lines_read counts the readline() calls made
read_gsa_headers(file) ==
  IF ~StartsWith(ReadLine(file, 1), DSAA)
    THEN [status |-> "AssertionError", lines_read |-> 1]
  ELSE LET l2 == Split(ReadLine(file, 2))
           l3 == Split(ReadLine(file, 3))
           l4 == Split(ReadLine(file, 4))
  IN IF Len(l2) # 2 THEN [status |-> "ValueError", lines_read |-> 2]
     ELSE IF Len(l3) # 2 THEN [status |-> "ValueError", lines_read |-> 3]
     ELSE IF Len(l4) # 2 THEN [status |-> "ValueError", lines_read |-> 4]
     ELSE LET xmin == ParseFloat(l3[1])
              xmax == ParseFloat(l3[2])
              ymin == ParseFloat(l4[1])
              ymax == ParseFloat(l4[2])
              num_cols == ParseInt(l2[1])
              num_rows == ParseInt(l2[2])
          IN IF \E r \in {xmin, xmax, ymin, ymax, num_cols, num_rows} : ~r.ok
               THEN [status |-> "ValueError", lines_read |-> 4]
               ELSE [status |-> "ok", lines_read |-> 4,
                     value |-> ReturnValue(xmin.val, xmax.val, ymin.val,
                                           ymax.val, num_rows.val, num_cols.val)]

\* np.min(grid) / np.max(grid) of a non-empty grid (a sequence of rows)
GridValues(grid) == {grid[r][c] : r \in 1..Len(grid), c \in 1..Len(grid[1])}
GridMin(grid) == CHOOSE x \in GridValues(grid) :
                   \A y \in GridValues(grid) : x.t <= y.t
GridMax(grid) == CHOOSE x \in GridValues(grid) :
                   \A y \in GridValues(grid) : x.t >= y.t

\* Variant of header_rows: the dims row written rows first.
M_HeaderRowsRowsFirst(a, zmin, zmax) ==
  <<<<DSAA>>, <<Str(a.num_rows_dem), Str(a.num_cols_dem)>>,
    <<Str(a.dem_xmin), Str(a.dem_xmax)>>, <<Str(a.dem_ymin), Str(a.dem_ymax)>>,
    <<Str(zmin), Str(zmax)>>>>

\* header_rows, each field formatted as csv.writer formats it
HeaderRows(a, zmin, zmax) ==
  <<<<DSAA>>, <<Str(a.num_cols_dem), Str(a.num_rows_dem)>>,
    <<Str(a.dem_xmin), Str(a.dem_xmax)>>, <<Str(a.dem_ymin), Str(a.dem_ymax)>>,
    <<Str(zmin), Str(zmax)>>>>

\* the lines write_grid_to_gsa_file writes for arguments a
write_grid_to_gsa_file(a) ==
  LET header_rows == HeaderRows(a, GridMin(a.grid), GridMax(a.grid)) IN
  [k \in 1..Len(header_rows) |-> JoinRow(header_rows[k])]
  \o [r \in 1..Len(a.grid) |->
       JoinRow([c \in 1..Len(a.grid[r]) |-> Str(a.grid[r][c])])]

\* the first lines and the later lines of the files found on disk
FirstLines ==
  {DSAA, DSAA \o <<"2">>, <<"D", "S", "A">>, <<"X">> \o DSAA,
   <<" ">> \o DSAA, <<>>}
LaterLines ==
  {<<"2", " ", "1">>, <<"0", ".", "5", " ", "-", "1", ".", "5">>,
   <<"x", " ", "y", " ", "z">>}
ForeignFiles ==
  {<<>>} \cup {<<f>> \o ls : f \in FirstLines, ls \in SeqsUpTo(LaterLines, 3)}

\* the extents and the grids given to the writer
ExtentValues == {PyInt(0), PyFloat(5), PyFloat(-15)}
GridsOf(shape) ==
  [1..shape[1] -> [1..shape[2] -> {PyFloat(5), PyInt(12)}]]

InitGsa ==
  /\ gsa_file \in ForeignFiles
  /\ gsa_written = None
  /\ gsa_out = None
  /\ IdleSync /\ IdlePixel /\ IdleMask

WriteGridToGsaFile ==
  \E nc \in 1..MaxGsaDim, nr \in 1..MaxGsaDim,
     ext \in [1..4 -> ExtentValues], shape \in {<<1, 2>>, <<2, 1>>} :
    \E grid \in GridsOf(shape) :
      LET a == [status |-> "written", grid |-> grid,
                num_cols_dem |-> PyInt(nc), num_rows_dem |-> PyInt(nr),
                dem_xmin |-> ext[1], dem_xmax |-> ext[2],
                dem_ymin |-> ext[3], dem_ymax |-> ext[4]]
      IN /\ gsa_written = None /\ gsa_out = None
         /\ gsa_file' = write_grid_to_gsa_file(a)
         /\ gsa_written' = a
         /\ UNCHANGED <<gsa_out, syncVars, pixelVars, maskVars>>

ReadGsaHeaders ==
  /\ gsa_out = None
  /\ gsa_out' = read_gsa_headers(gsa_file)
  /\ UNCHANGED <<gsa_file, gsa_written, syncVars, pixelVars, maskVars>>

NextGsa == WriteGridToGsaFile \/ ReadGsaHeaders

SpecGsa == InitGsa /\ [][NextGsa]_vars

\* C8: reading the header of a file written by write_grid_to_gsa_file
\* returns [xmin, xmax, ymin, ymax, num_rows, num_cols] with the values
\* given to the writer, each in its own position.
C8_HeaderRoundTrip ==
  (gsa_written.status = "written" /\ gsa_out.status # "none") =>
    /\ gsa_out.status = "ok"
    /\ Len(gsa_out.value) = 6
    /\ gsa_out.value[1].t = gsa_written.dem_xmin.t
    /\ gsa_out.value[2].t = gsa_written.dem_xmax.t
    /\ gsa_out.value[3].t = gsa_written.dem_ymin.t
    /\ gsa_out.value[4].t = gsa_written.dem_ymax.t
    /\ gsa_out.value[5] = gsa_written.num_rows_dem
    /\ gsa_out.value[6] = gsa_written.num_cols_dem

C8_Witness ==
  /\ gsa_written.status = "written" /\ gsa_out.status = "ok"
  /\ gsa_written.num_rows_dem # gsa_written.num_cols_dem
  /\ gsa_written.dem_xmin.t < 0 /\ gsa_written.dem_xmax.kind = "int"
  /\ gsa_written.dem_xmin # gsa_written.dem_ymin
  /\ Len(gsa_written.grid) # gsa_written.num_rows_dem.t \div 10

\* C9: on a file whose first line does not start with 'DSAA' the reader
\* fails before it reads a second line, whatever the later lines hold.
HasMarker(file) ==
  /\ Len(file) >= 1 /\ Len(file[1]) >= 4
  /\ file[1][1] = "D" /\ file[1][2] = "S" /\ file[1][3] = "A" /\ file[1][4] = "A"

C9_HeaderRejection ==
  (gsa_out.status # "none" /\ ~HasMarker(gsa_file)) =>
    gsa_out = [status |-> "AssertionError", lines_read |-> 1]

C9_Witness ==
  /\ gsa_out.status = "AssertionError"
  /\ Len(gsa_file) = 4
  /\ gsa_file[1] = <<"X">> \o DSAA
  /\ Len(Split(gsa_file[2])) = 2 /\ ParseInt(Split(gsa_file[2])[1]).ok
  /\ Len(Split(gsa_file[3])) = 2 /\ Len(Split(gsa_file[4])) = 2

-----------------------------------------------------------------------------
(* Properties of the synchronizer.                                         *)

\* the HRUs of a cell as <<band, key>>, in the concatenation over the cell's
\* bands of each band's hru_keys_sorted
HruOrder(cell) ==
  Flatten([b \in 1..Len(cell.bands) |->
            [j \in 1..Len(cell.bands[b].hru_keys_sorted) |->
              <<b, cell.bands[b].hru_keys_sorted[j]>>]])

HruStateAt(cell, p) ==
  LET bk == HruOrder(cell)[p] IN cell.bands[bk[1]].hrus[bk[2]].hru_state

Capacity(state) == NumLats(state) * Len(state.lon)

Ok(call, op, target) ==
  call.op = op /\ call.target = target /\ call.status = "ok"

\* the value a store holds for variable v at index ix, -1 when it holds none
At(state, v, ix) ==
  IF v \in DOMAIN state.vars /\ ix \in DOMAIN state.vars[v]
    THEN state.vars[v][ix] ELSE -1

\* every store variable is declared by every cell, or by every HRU
AllDeclared(state, cs) ==
  \A v \in DOMAIN state.vars :
    IF v \in CellVarNames
      THEN \A c \in 1..Len(cs) :
             \E k \in 1..Len(cs[c].cell_state) : cs[c].cell_state[k][1] = v
      ELSE \A c \in 1..Len(cs) : \A p \in 1..Len(HruOrder(cs[c])) :
             \E k \in 1..Len(HruStateAt(cs[c], p)) :
               HruStateAt(cs[c], p)[k][1] = v

RoundTripDone ==
  /\ Ok(prev, "read", "S") /\ Ok(last, "write", "Z")
  /\ cells # <<>>
  /\ pre_store = Zeroed(stores["S"])
  /\ \A c \in 1..Len(cells) :
       Len(HruOrder(cells[c])) = NumHrus(stores["S"])

\* C1 as stated: after read_state(S, cells) and write_state(Z, cells) on a
\* freshly zeroed Z of S's shape, with every cell's HRU count equal to the
\* HRU axis length, every variable array of Z equals that of S.
C1_RoundTrip_AsStated ==
  RoundTripDone => stores["Z"].vars = stores["S"].vars

\* C1 (amended): the same, when moreover the number of cells equals
\* num_lats * num_lons and every store variable is declared by every cell
\* (cell level) or by every HRU (HRU level).
C1_RoundTrip ==
  (/\ RoundTripDone
   /\ Len(cells) = Capacity(stores["S"])
   /\ AllDeclared(stores["S"], cells))
  => stores["Z"].vars = stores["S"].vars

C1_Witness ==
  /\ RoundTripDone
  /\ Len(cells) = Capacity(stores["S"])
  /\ AllDeclared(stores["S"], cells)
  /\ DOMAIN stores["S"].vars = CellVarNames \cup HruVarNames
  /\ \E c \in 1..Len(cells) : Len(cells[c].bands) >= 2

\* C2: a pass that aborts leaves its destination as it was before the call.
C2_NoPartialWrites ==
  /\ (last.op = "write" /\ last.status # "ok")
       => stores[last.target] = pre_store
  /\ (last.op = "read" /\ last.status # "ok") => cells = pre_cells

\* C3: after a successful read_state the i-th cell holds, for every
\* cell-level variable v, state[v][i div num_lons][i mod num_lons], and its
\* HRU at position h of the concatenated hru_keys_sorted holds
\* state[v][i div num_lons][i mod num_lons][h]; index 6 with num_lons = 3
\* is (2, 0).
C3_PullCoordinates ==
  /\ Get2DCellIndices(6, 3) = <<2, 0>>
  /\ (last.op = "read" /\ last.status = "ok") =>
       LET state == stores[last.target]
           num_lons == Len(state.lon)
       IN \A c \in 1..Len(cells) :
            LET ll == <<(c - 1) \div num_lons, (c - 1) % num_lons>> IN
            /\ \A k \in 1..Len(cells[c].cell_state) :
                 cells[c].cell_state[k][2] =
                   At(state, cells[c].cell_state[k][1], ll)
            /\ \A p \in 1..Len(HruOrder(cells[c])) :
                 \A k \in 1..Len(HruStateAt(cells[c], p)) :
                   HruStateAt(cells[c], p)[k][2] =
                     At(state, HruStateAt(cells[c], p)[k][1], <<ll, p - 1>>)

C3_Witness ==
  /\ last.op = "read" /\ last.status = "ok" /\ last.target = "S"
  /\ Len(cells) >= 2
  /\ cells[2].cell_state # <<>>
  /\ \E c \in 1..Len(cells) :
       /\ Len(cells[c].bands) >= 2
       /\ HruStateAt(cells[c], 2) # <<>>
       /\ HruStateAt(cells[c], 2)[1][2] # HruStateAt(cells[c], 1)[1][2]

\* the cells and HRUs of the hierarchy that declare variable v and sit at
\* store index ix
DeclaredAt(cs, num_lons, v, ix) ==
  \E c \in 1..Len(cs) :
    LET ll == <<(c - 1) \div num_lons, (c - 1) % num_lons>> IN
    IF v \in CellVarNames
      THEN /\ ix = ll
           /\ \E k \in 1..Len(cs[c].cell_state) : cs[c].cell_state[k][1] = v
      ELSE \E p \in 1..Len(HruOrder(cs[c])) :
             /\ ix = <<ll, p - 1>>
             /\ \E k \in 1..Len(HruStateAt(cs[c], p)) :
                  HruStateAt(cs[c], p)[k][1] = v

\* C4: write_state changes a store element only at the coordinates of a
\* cell or HRU that declares the variable; a variable no state mapping
\* declares keeps its contents, whether the pass completes or aborts.
C4_PushFrame ==
  last.op = "write" =>
    LET state == stores[last.target] IN
    /\ DOMAIN state.vars = DOMAIN pre_store.vars
    /\ \A v \in DOMAIN state.vars :
         /\ DOMAIN state.vars[v] = DOMAIN pre_store.vars[v]
         /\ \A ix \in DOMAIN state.vars[v] :
              state.vars[v][ix] # pre_store.vars[v][ix]
                => /\ Len(state.lon) > 0
                   /\ DeclaredAt(cells, Len(state.lon), v, ix)

C4_Witness ==
  /\ last.op = "write" /\ last.status = "ok"
  /\ stores[last.target] # pre_store
  /\ Len(cells) >= 2
  /\ \E v \in DOMAIN pre_store.vars :
       /\ \A ix \in DOMAIN pre_store.vars[v] :
            ~DeclaredAt(cells, Len(pre_store.lon), v, ix)
       /\ DOMAIN pre_store.vars[v] # {}

\* the store is too small for the hierarchy
TooSmall(state, cs) ==
  \/ Len(cs) > Capacity(state)
  \/ \E c \in 1..Len(cs) : Len(HruOrder(cs[c])) > NumHrus(state)

\* a cell beyond the store's capacity, or an HRU beyond its HRU axis,
\* declares a variable
ExcessDeclared(state, cs) ==
  \E c \in 1..Len(cs) :
    \/ c > Capacity(state) /\ cs[c].cell_state # <<>>
    \/ \E p \in 1..Len(HruOrder(cs[c])) :
         /\ c > Capacity(state) \/ p > NumHrus(state)
         /\ HruStateAt(cs[c], p) # <<>>

\* C5 as stated, in its weakest reading: on a store too small for the
\* hierarchy neither read_state nor write_state completes normally (the
\* claim says more: that the failure is an out-of-range access).
C5_ShapeMismatch_AsStated ==
  (last.op # "none" /\ TooSmall(pre_store, pre_cells)) => last.status # "ok"

\* C5 (amended): with num_lons >= 1, when a cell beyond num_lats * num_lons
\* or an HRU beyond the HRU axis declares a variable, the pass does not
\* complete: it aborts with an out-of-range access, or with a missing
\* variable when the store lacks a declared variable; with every declared
\* variable in the store it is the out-of-range access.
C5_ShapeMismatch ==
  (/\ last.op # "none"
   /\ Len(pre_store.lon) >= 1
   /\ ExcessDeclared(pre_store, pre_cells))
  => /\ last.status \in {"IndexError", "KeyError"}
     /\ DOMAIN pre_store.vars = CellVarNames \cup HruVarNames
          => last.status = "IndexError"

C5_Witness ==
  /\ last.op = "write" /\ last.status = "IndexError"
  /\ Len(pre_store.lon) >= 1
  /\ Len(pre_cells) > Capacity(pre_store)
  /\ ExcessDeclared(pre_store, pre_cells)
  /\ stores[last.target] # pre_store

\* C10: a read_state that follows a successful write_state on the same
\* store completes and leaves every CellState and HruState variable as it
\* was before the write.
C10_PushThenPull ==
  (prev.op = "write" /\ prev.status = "ok"
     /\ last.op = "read" /\ last.target = prev.target)
  => (last.status = "ok" /\ cells = pre_cells)

C10_Witness ==
  /\ Ok(prev, "write", "Z") /\ Ok(last, "read", "Z")
  /\ Len(cells) >= 2
  /\ cells[1].cell_state # <<>>
  /\ \E c \in 1..Len(cells) :
       Len(cells[c].bands) >= 2 /\ HruStateAt(cells[c], 1) # <<>>

====
